---- MODULE Spec2Model ----
\* only-notes-server.  Two servers live in the repository:
\*   - route.rs + handler.rs: login, logout and the notes routes behind the
\*     auth middleware (specification Spec, and SpecLogin for concurrent logins);
\*   - main.rs: the stand-alone server with /account and /notes
\*     (specification SpecMain).
\* Every request is a task that moves through
\*   idle -> handler -> (login_insert ->) done
\* and each stretch of a handler between two awaits on the store is one action.
EXTENDS Integers, Sequences, FiniteSets, TLC

VARIABLES
  users,    \* table users : set of User rows (model.rs; the date column is never read)
  notes,    \* table notes : set of Note rows (model.rs)
  notes0,   \* table notes of main.rs : sequence of rows (author, content, iv, date)
  now,      \* wall clock, seconds since the epoch
  held,     \* the token the client holds (body / cookie of the latest login)
  req,      \* per task: the request being served
  pc,       \* per task: position of the task
  ctx,      \* per task: the Extension<TokenClaims> the gate attached
  gate,     \* per task: terminal state of the auth middleware, if it ran
  resp,     \* per task: the response sent
  calls     \* per task: outcome of each sqlx query issued for this request

vars == <<users, notes, notes0, now, held, req, pc, ctx, gate, resp, calls>>

-----------------------------------------------------------------------------
\* Bounds of the model

MaxUsers  == 2      \* ids the users sequence can hand out
MaxNotes  == 1      \* ids the notes sequence can hand out
MaxLegacy == 1      \* rows the notes table of main.rs can hold

Reqs   == {"r1", "r2"}               \* tasks
Serial == {"r1"}                     \* the task of Spec and SpecMain

\* Strings that are converted are sequences of code points:
\* "A" = 65, "a" = 97, U+00C9 (E acute, upper case) = 201.
EmailInputs == {<<65>>, <<97>>, <<201>>}
Passwords   == {"pw1", "wrongpw"}
Salts       == {"s1", "s2"}
Contents    == {"hi"}
Tags        == {<<"x">>}
Authors     == {"alice", "bob"}      \* client-supplied author strings
Ivs         == {"iv"}
StoreErrors == {"PoolTimedOut", "Io"}   \* sqlx::Error variants of a failed query

UserIds == 1..MaxUsers
NoteIds == 1..MaxNotes

-----------------------------------------------------------------------------
\* Values that stand for None

NoClaims == [none |-> "claims"]
NoToken  == [none |-> "token"]
NoCookie == [none |-> "cookie"]
NoFrom   == -1
NoReq    == [router |-> "none", route |-> "none"]
NoResp   == [status |-> 0]

-----------------------------------------------------------------------------
\* config.rs

JWT_SECRET == "JWT_SECRET"

-----------------------------------------------------------------------------
\* Pure functions of handler.rs

\* u8::to_ascii_lowercase: only 'A'..'Z' are mapped
ascii_lowercase_char(c) == IF c >= 65 /\ c <= 90 THEN c + 32 ELSE c

\* the email used as it was sent
not_lowercased(s) == s

\* str::to_ascii_lowercase
to_ascii_lowercase(s) == [i \in DOMAIN s |-> ascii_lowercase_char(s[i])]

\* Argon2::default().hash_password(password, salt).to_string()
hash_password(password, salt) ==
  [alg |-> "argon2id", salt |-> salt, hash |-> <<password, salt>>]

\* PasswordHash::new(&user.password) is Ok
parses(stored) == "alg" \in DOMAIN stored

\* Argon2::default().verify_password(password, &parsed_hash) is Ok: the hash is
\* recomputed under the algorithm and salt of the stored one; an algorithm that
\* is not Argon2's is an Err
verify_password(password, stored) ==
  /\ stored.alg = "argon2id"
  /\ stored.hash = <<password, stored.salt>>

\* is_valid with the two arms of map_or swapped
is_valid_swapped(password, stored) ==
  IF parses(stored) THEN stored.hash # <<password, stored.salt>> ELSE FALSE

\* is_valid with the outcome of the verification ignored
is_valid_always(password, stored) == parses(stored)

\* is_valid with Err(_) => true for a stored hash that does not parse
is_valid_open(password, stored) ==
  IF parses(stored) THEN verify_password(password, stored) ELSE TRUE

\* verify_password(..).map_or(false, |_| true), Err(_) => false
is_valid(password, stored) ==
  IF parses(stored) THEN verify_password(password, stored) ELSE FALSE

\* days taken for weeks
chrono_days(n) == n * 86400

\* chrono::Duration::weeks(n) in seconds
chrono_weeks(n) == n * 604800

\* time::Duration::weeks(n) in seconds
time_weeks(n) == n * 604800

\* time::Duration::hours(n) in seconds
time_hours(n) == n * 3600

\* TokenClaims { sub, email, exp, iat } built at lines 87-95
claims_of(user, t) ==
  [sub |-> user.id, email |-> user.email, exp |-> t + chrono_weeks(4), iat |-> t]

\* jsonwebtoken::encode(&Header::default(), &claims, &EncodingKey::from_secret(key))
\* the signature records exactly what was signed and under which key
encode(claims, key) ==
  [claims |-> claims, sig |-> [signed |-> claims, key |-> key]]

\* the cookie of login built without http_only(true)
login_cookie_readable(token) ==
  [name |-> "token", value |-> token, path |-> "/", max_age |-> time_weeks(4),
   same_site |-> "Lax", http_only |-> FALSE]

\* Cookie::build("token", token).path("/").max_age(weeks(4)).same_site(Lax).http_only(true)
login_cookie(token) ==
  [name |-> "token", value |-> token, path |-> "/", max_age |-> time_weeks(4),
   same_site |-> "Lax", http_only |-> TRUE]

\* a logout that sets the cookie again for four weeks instead of expiring it
logout_cookie_kept ==
  [name |-> "token", value |-> NoToken, path |-> "/", max_age |-> time_weeks(4),
   same_site |-> "Lax", http_only |-> TRUE]

\* Cookie::build("token", "").path("/").max_age(hours(-1))...
logout_cookie ==
  [name |-> "token", value |-> NoToken, path |-> "/", max_age |-> time_hours(-1),
   same_site |-> "Lax", http_only |-> TRUE]

\* FilteredNote::from(&Note)
FilteredNote(note) == [content |-> note.content, tags |-> note.tags, date |-> note.date]


-----------------------------------------------------------------------------
\* The auth middleware jwt_auth::auth and jsonwebtoken::decode

Malformed == [malformed |-> TRUE]

\* token taken from the cookie named "token", else from Authorization: Bearer
extract_token(rq) == IF rq.cookie # NoToken THEN rq.cookie ELSE rq.bearer

\* decode that still accepts a token at the instant of its exp
decode_late(token, key, t) ==
  IF "claims" \notin DOMAIN token THEN "MALFORMED"
  ELSE IF token.sig # [signed |-> token.claims, key |-> key] THEN "BAD_SIGNATURE"
  ELSE IF t > token.claims.exp THEN "EXPIRED"
  ELSE "OK"

\* decode::<TokenClaims>(token, secret, Validation::default()) at time t
decode(token, key, t) ==
  IF "claims" \notin DOMAIN token THEN "MALFORMED"
  ELSE IF token.sig # [signed |-> token.claims, key |-> key] THEN "BAD_SIGNATURE"
  ELSE IF t >= token.claims.exp THEN "EXPIRED"
  ELSE "OK"

\* the terminal state of the gate for request rq at time t
auth(rq, t) ==
  IF extract_token(rq) = NoToken THEN "REJECTED_MISSING"
  ELSE IF decode(extract_token(rq), JWT_SECRET, t) # "OK" THEN "REJECTED_INVALID"
  ELSE "ALLOWED"

-----------------------------------------------------------------------------
\* Routers: route -> is the handler wrapped in route_layer(auth)

\* route.rs
create_router ==
  [login |-> FALSE, logout |-> TRUE, get_notes |-> TRUE, post_note |-> TRUE]

\* main.rs
main_create_router ==
  [check_account |-> FALSE, get_notes |-> FALSE, post_note |-> FALSE]


-----------------------------------------------------------------------------
\* What a client can send

Times == {0, 1, chrono_weeks(4)}
Froms == {NoFrom, 0}

\* a held token with its subject rewritten, signature left as it was
Tampered(t) == [t EXCEPT !.claims.sub = (t.claims.sub % MaxUsers) + 1]

\* what a client can put in the cookie or in the Authorization header
Forged == {Malformed} \cup (IF held = NoToken THEN {} ELSE {held, Tampered(held)})

\* <<cookie, bearer>>
Credentials ==
  {<<NoToken, NoToken>>}
  \cup {<<t, NoToken>> : t \in Forged}
  \cup {<<NoToken, t>> : t \in Forged}
  \cup {<<Malformed, t>> : t \in Forged \ {Malformed}}
  \cup {<<t, Malformed>> : t \in Forged \ {Malformed}}

\* requests to the router of route.rs
LoginRequests ==
  {[router |-> "route", route |-> "login", cookie |-> NoToken, bearer |-> NoToken,
    email |-> e, password |-> p] : e \in EmailInputs, p \in Passwords}

Requests ==
  LoginRequests
  \cup
  {[router |-> "route", route |-> "logout", cookie |-> c[1], bearer |-> c[2]] : c \in Credentials}
  \cup
  {[router |-> "route", route |-> "get_notes", cookie |-> c[1], bearer |-> c[2], from |-> f] :
     c \in Credentials, f \in Froms}
  \cup
  {[router |-> "route", route |-> "post_note", cookie |-> c[1], bearer |-> c[2],
    content |-> x, tags |-> g] : c \in Credentials, x \in Contents, g \in Tags}

\* requests to the router of main.rs
MainRequests ==
  {[router |-> "main", route |-> "check_account", cookie |-> NoToken, bearer |-> NoToken,
    author |-> a] : a \in Authors}
  \cup
  {[router |-> "main", route |-> "get_notes", cookie |-> NoToken, bearer |-> NoToken,
    author |-> a, from |-> f] : a \in Authors, f \in Froms}
  \cup
  {[router |-> "main", route |-> "post_note", cookie |-> NoToken, bearer |-> NoToken,
    author |-> a, content |-> x, iv |-> i] : a \in Authors, x \in Contents, i \in Ivs}

-----------------------------------------------------------------------------
Init ==
  /\ users = {}
  /\ notes = {}
  /\ notes0 = <<>>
  /\ now = 0
  /\ held = NoToken
  /\ req = [r \in Reqs |-> NoReq]
  /\ pc = [r \in Reqs |-> "idle"]
  /\ ctx = [r \in Reqs |-> NoClaims]
  /\ gate = [r \in Reqs |-> "none"]
  /\ resp = [r \in Reqs |-> NoResp]
  /\ calls = [r \in Reqs |-> <<>>]

store == <<users, notes, notes0>>

\* (StatusCode, Json(json!({"status": .., "message": ..})))
error_response(code, status, message) ==
  [status |-> code, json_status |-> status, message |-> message,
   token |-> NoToken, set_cookie |-> NoCookie]

\* format!("Database error: {}", e)
database_error(e) == <<"Database error: ", e>>

\* The Err of an INSERT that violates the unique index on users.email
DuplicateErr == "Database(unique_violation)"

\* outcomes of one query: Ok, or an Err of sqlx
Outcomes == {"Ok"} \cup StoreErrors

Called(r, outcome) == calls' = [calls EXCEPT ![r] = Append(@, outcome)]

Finish(r, response) ==
  /\ pc' = [pc EXCEPT ![r] = "done"]
  /\ resp' = [resp EXCEPT ![r] = response]

\* axum dispatches a request: through route_layer(auth) where the router has
\* one, straight to the handler otherwise
Dispatch(r, router, rq) ==
  /\ req' = [req EXCEPT ![r] = rq]
  /\ IF router[rq.route]
     THEN LET g == auth(rq, now) IN
          /\ gate' = [gate EXCEPT ![r] = g]
          /\ IF g = "ALLOWED"
             THEN /\ ctx' = [ctx EXCEPT ![r] = extract_token(rq).claims]
                  /\ pc' = [pc EXCEPT ![r] = "handler"]
                  /\ UNCHANGED resp
             ELSE /\ Finish(r, error_response(401, "fail",
                       IF g = "REJECTED_MISSING" THEN "missing token"
                       ELSE "invalid or expired token"))
                  /\ UNCHANGED ctx
     ELSE /\ pc' = [pc EXCEPT ![r] = "handler"]
          /\ UNCHANGED <<ctx, gate, resp>>

\* A request arrives at the server of route.rs
Arrive(r) ==
  /\ pc[r] = "idle"
  /\ \E rq \in Requests : Dispatch(r, create_router, rq)
  /\ UNCHANGED <<store, now, held, calls>>


-----------------------------------------------------------------------------
\* login_user_handler

\* "SELECT * FROM users WHERE email = $1"
select_user(email) == {u \in users : u.email = email}

\* lines 87-115: claims, token, cookie, response
login_response(user, t) ==
  LET token == encode(claims_of(user, t), JWT_SECRET) IN
  [status |-> 200, token |-> token, set_cookie |-> login_cookie(token)]

\* login_user_handler with a failed lookup taken for "no such user"
\* (.ok().flatten() in place of the ? of line 36)
LoginLookup_lenient(r) ==
  /\ pc[r] = "handler"
  /\ req[r].router = "route"
  /\ req[r].route = "login"
  /\ \E outcome \in Outcomes :
       /\ Called(r, outcome)
       /\ LET found == IF outcome # "Ok" THEN {}
                       ELSE select_user(to_ascii_lowercase(req[r].email)) IN
          IF found = {}
          THEN /\ pc' = [pc EXCEPT ![r] = "login_insert"]
               /\ UNCHANGED <<resp, held>>
          ELSE \E user \in found :
                 IF ~is_valid(req[r].password, user.password)
                 THEN /\ Finish(r, error_response(400, "fail",
                                                  "Invalid email or password"))
                      /\ UNCHANGED held
                 ELSE /\ Finish(r, login_response(user, now))
                      /\ held' = login_response(user, now).token
  /\ UNCHANGED <<store, now, req, ctx, gate>>

\* lines 23-55 and, for a found user, 87-115
LoginLookup(r) ==
  /\ pc[r] = "handler"
  /\ req[r].router = "route"
  /\ req[r].route = "login"
  /\ \E outcome \in Outcomes :
       /\ Called(r, outcome)
       /\ IF outcome # "Ok"
          THEN /\ Finish(r, error_response(500, "error", database_error(outcome)))
               /\ UNCHANGED held
          ELSE LET found == select_user(to_ascii_lowercase(req[r].email)) IN
               IF found = {}
               THEN /\ pc' = [pc EXCEPT ![r] = "login_insert"]
                    /\ UNCHANGED <<resp, held>>
               ELSE \E user \in found :
                      IF ~is_valid(req[r].password, user.password)
                      THEN /\ Finish(r, error_response(400, "fail",
                                                       "Invalid email or password"))
                           /\ UNCHANGED held
                      ELSE /\ Finish(r, login_response(user, now))
                           /\ held' = login_response(user, now).token
  /\ UNCHANGED <<store, now, req, ctx, gate>>

\* the unique index on users.email rejects a second row for an email
unique_violation(email) == \E u \in users : u.email = email

\* the row of "INSERT INTO users (email,password) VALUES ($1, $2) RETURNING *";
\* the store generates the id
new_user(id, email, password) ==
  [id |-> id, email |-> email, password |-> password]

\* the insert written as an upsert: "... ON CONFLICT (email) DO UPDATE SET
\* password = EXCLUDED.password RETURNING *"
LoginInsert_upsert(r) ==
  /\ pc[r] = "login_insert"
  /\ \E outcome \in Outcomes, salt \in Salts :
       LET email == to_ascii_lowercase(req[r].email)
           hashed == hash_password(req[r].password, salt)
       IN
       /\ Called(r, outcome)
       /\ IF outcome # "Ok"
          THEN /\ Finish(r, error_response(500, "fail", database_error(outcome)))
               /\ UNCHANGED <<users, held>>
          ELSE IF unique_violation(email)
          THEN \E old \in select_user(email) :
                 LET user == [old EXCEPT !.password = hashed] IN
                 /\ users' = (users \ {old}) \cup {user}
                 /\ Finish(r, login_response(user, now))
                 /\ held' = login_response(user, now).token
          ELSE \E id \in UserIds \ {u.id : u \in users} :
                 LET user == new_user(id, email, hashed) IN
                 /\ users' = users \cup {user}
                 /\ Finish(r, login_response(user, now))
                 /\ held' = login_response(user, now).token
  /\ UNCHANGED <<notes, notes0, now, req, ctx, gate>>

\* lines 56-84 and 87-115
LoginInsert(r) ==
  /\ pc[r] = "login_insert"
  /\ \E outcome \in Outcomes, salt \in Salts :
       LET email == to_ascii_lowercase(req[r].email)
           failure == IF outcome # "Ok" THEN outcome
                      ELSE IF unique_violation(email) THEN DuplicateErr
                      ELSE "Ok"
       IN
       /\ Called(r, failure)
       /\ IF failure # "Ok"
          THEN /\ Finish(r, error_response(500, "fail", database_error(failure)))
               /\ UNCHANGED <<users, held>>
          ELSE \E id \in UserIds \ {u.id : u \in users} :
                 LET user == new_user(id, email, hash_password(req[r].password, salt)) IN
                 /\ users' = users \cup {user}
                 /\ Finish(r, login_response(user, now))
                 /\ held' = login_response(user, now).token
  /\ UNCHANGED <<notes, notes0, now, req, ctx, gate>>

-----------------------------------------------------------------------------
\* logout_handler
Logout(r) ==
  /\ pc[r] = "handler"
  /\ req[r].router = "route"
  /\ req[r].route = "logout"
  /\ Finish(r, [status |-> 200, json_status |-> "success", token |-> NoToken,
                set_cookie |-> logout_cookie])
  /\ UNCHANGED <<store, now, held, req, ctx, gate, calls>>

-----------------------------------------------------------------------------
\* get_notes_handler (handler.rs)

\* "SELECT * FROM notes WHERE id = $1 and date > $2" / "... WHERE id = $1"
select_notes(key, from) ==
  {n \in notes : n.id = key /\ (from = NoFrom \/ n.date > from)}

RECURSIVE fetch_all(_)
\* the rows of a result set as a Vec, in id order
fetch_all(rows) ==
  IF rows = {} THEN <<>>
  ELSE LET first == CHOOSE n \in rows : \A m \in rows : n.id <= m.id
       IN <<first>> \o fetch_all(rows \ {first})

\* Json(NotesResponse { author, notes }); rows is the Vec<Note> it was built from
NotesResponse(author, rows) ==
  [status |-> 200, author |-> author, rows |-> rows,
   notes |-> [i \in DOMAIN rows |-> FilteredNote(rows[i])],
   token |-> NoToken, set_cookie |-> NoCookie]

GetNotes(r) ==
  /\ pc[r] = "handler"
  /\ req[r].router = "route"
  /\ req[r].route = "get_notes"
  /\ \E outcome \in Outcomes :
       /\ Called(r, outcome)
       /\ IF outcome # "Ok"
          THEN Finish(r, error_response(500, "error", database_error(outcome)))
          ELSE Finish(r, NotesResponse(ctx[r].email,
                           fetch_all(select_notes(ctx[r].sub, req[r].from))))
  /\ UNCHANGED <<store, now, held, req, ctx, gate>>

-----------------------------------------------------------------------------
\* post_note_handler (handler.rs)

\* the row of "INSERT INTO notes (author,content,tags) VALUES ($1, $2, $3)
\* RETURNING *"; the store generates id and date
new_note(id, author, content, tags, t) ==
  [id |-> id, author |-> author, content |-> content, tags |-> tags, date |-> t]

PostNote(r) ==
  /\ pc[r] = "handler"
  /\ req[r].router = "route"
  /\ req[r].route = "post_note"
  /\ \E outcome \in Outcomes :
       /\ Called(r, outcome)
       /\ IF outcome # "Ok"
          THEN /\ Finish(r, error_response(500, "fail", database_error(outcome)))
               /\ UNCHANGED notes
          ELSE \E id \in NoteIds \ {n.id : n \in notes} :
                 LET note == new_note(id, ctx[r].sub, req[r].content, req[r].tags, now) IN
                 /\ notes' = notes \cup {note}
                 /\ Finish(r, [status |-> 200, row |-> note, note |-> FilteredNote(note),
                               token |-> NoToken, set_cookie |-> NoCookie])
  /\ UNCHANGED <<users, notes0, now, held, req, ctx, gate>>

-----------------------------------------------------------------------------
\* Environment

\* the response has been sent and the task ends
Reset(r) ==
  /\ pc[r] = "done"
  /\ pc' = [pc EXCEPT ![r] = "idle"]
  /\ req' = [req EXCEPT ![r] = NoReq]
  /\ ctx' = [ctx EXCEPT ![r] = NoClaims]
  /\ gate' = [gate EXCEPT ![r] = "none"]
  /\ resp' = [resp EXCEPT ![r] = NoResp]
  /\ calls' = [calls EXCEPT ![r] = <<>>]
  /\ UNCHANGED <<store, now, held>>

\* time passes
Tick ==
  /\ \E t \in Times : t > now /\ now' = t
  /\ UNCHANGED <<store, held, req, pc, ctx, gate, resp, calls>>

-----------------------------------------------------------------------------
\* The server of main.rs

\* A request arrives at the server of main.rs
ArriveMain(r) ==
  /\ pc[r] = "idle"
  /\ \E rq \in MainRequests : Dispatch(r, main_create_router, rq)
  /\ UNCHANGED <<store, now, held, calls>>

\* the rows of notes0 that satisfy a predicate, in table order
RECURSIVE select_rows(_, _, _)
select_rows(rows, author, from) ==
  IF rows = <<>> THEN <<>>
  ELSE LET n == Head(rows) IN
       (IF n.author = author /\ (from = NoFrom \/ n.date > from) THEN <<n>> ELSE <<>>)
       \o select_rows(Tail(rows), author, from)

\* check_account: "SELECT date FROM notes WHERE author = $1 LIMIT 1"
CheckAccount(r) ==
  /\ pc[r] = "handler"
  /\ req[r].router = "main"
  /\ req[r].route = "check_account"
  /\ \E outcome \in Outcomes :
       /\ Called(r, outcome)
       /\ IF outcome # "Ok"
          THEN Finish(r, error_response(500, "error", database_error(outcome)))
          ELSE LET first == select_rows(notes0, req[r].author, NoFrom) IN
               Finish(r, [status |-> 200, registered |-> first # <<>>,
                          date |-> IF first # <<>> THEN first[1].date ELSE NoFrom,
                          token |-> NoToken, set_cookie |-> NoCookie])
  /\ UNCHANGED <<store, now, held, req, ctx, gate>>

\* get_notes_handler of main.rs:
\* "SELECT * FROM notes WHERE author = $1 and date > $2" / "... WHERE author = $1"
MainGetNotes(r) ==
  /\ pc[r] = "handler"
  /\ req[r].router = "main"
  /\ req[r].route = "get_notes"
  /\ \E outcome \in Outcomes :
       /\ Called(r, outcome)
       /\ IF outcome # "Ok"
          THEN Finish(r, error_response(500, "error", database_error(outcome)))
          ELSE Finish(r, [status |-> 200,
                          rows |-> select_rows(notes0, req[r].author, req[r].from),
                          token |-> NoToken, set_cookie |-> NoCookie])
  /\ UNCHANGED <<store, now, held, req, ctx, gate>>

\* post_note_handler of main.rs:
\* "INSERT INTO notes (author,content,iv) VALUES ($1, $2, $3) RETURNING *"
MainPostNote(r) ==
  /\ pc[r] = "handler"
  /\ req[r].router = "main"
  /\ req[r].route = "post_note"
  /\ \E outcome \in Outcomes :
       /\ Called(r, outcome)
       /\ IF outcome # "Ok"
          THEN /\ Finish(r, error_response(500, "fail", database_error(outcome)))
               /\ UNCHANGED notes0
          ELSE LET note == [author |-> req[r].author, iv |-> req[r].iv,
                            content |-> req[r].content, date |-> now] IN
               /\ Len(notes0) < MaxLegacy
               /\ notes0' = Append(notes0, note)
               /\ Finish(r, [status |-> 200, row |-> note,
                             token |-> NoToken, set_cookie |-> NoCookie])
  /\ UNCHANGED <<users, notes, now, held, req, ctx, gate>>

NextMain ==
  \/ \E r \in Serial : ArriveMain(r)
  \/ \E r \in Serial : CheckAccount(r)
  \/ \E r \in Serial : MainGetNotes(r)
  \/ \E r \in Serial : MainPostNote(r)
  \/ \E r \in Serial : Reset(r)
  \/ Tick

SpecMain == Init /\ [][NextMain]_vars

-----------------------------------------------------------------------------
\* Concurrent logins: every task serves login requests

ArriveLogin(r) ==
  /\ pc[r] = "idle"
  /\ \E rq \in LoginRequests : Dispatch(r, create_router, rq)
  /\ UNCHANGED <<store, now, held, calls>>

NextLogin ==
  \/ \E r \in Reqs : ArriveLogin(r)
  \/ \E r \in Reqs : LoginLookup(r)
  \/ \E r \in Reqs : LoginInsert(r)
  \/ \E r \in Reqs : Reset(r)

SpecLogin == Init /\ [][NextLogin]_vars

-----------------------------------------------------------------------------
\* Logins against a users table that already holds a row when the server starts

\* rows of users whose password column was not written by hash_password: a text
\* that is no PHC string, and a PHC string of another algorithm
StoredElsewhere ==
  {[id |-> 1, email |-> <<97>>, password |-> [plain |-> "pw1"]],
   [id |-> 1, email |-> <<97>>,
    password |-> [alg |-> "scrypt", salt |-> "s1", hash |-> <<"pw1", "s1">>]]}

InitSeeded ==
  /\ \E u \in StoredElsewhere : users = {u}
  /\ notes = {}
  /\ notes0 = <<>>
  /\ now = 0
  /\ held = NoToken
  /\ req = [r \in Reqs |-> NoReq]
  /\ pc = [r \in Reqs |-> "idle"]
  /\ ctx = [r \in Reqs |-> NoClaims]
  /\ gate = [r \in Reqs |-> "none"]
  /\ resp = [r \in Reqs |-> NoResp]
  /\ calls = [r \in Reqs |-> <<>>]

NextSeeded ==
  \/ \E r \in Serial : ArriveLogin(r)
  \/ \E r \in Serial : LoginLookup(r)
  \/ \E r \in Serial : LoginInsert(r)
  \/ \E r \in Serial : Reset(r)

SpecSeeded == InitSeeded /\ [][NextSeeded]_vars

-----------------------------------------------------------------------------
\* The server of route.rs and handler.rs, one request at a time
Next ==
  \/ \E r \in Serial : Arrive(r)
  \/ \E r \in Serial : LoginLookup(r)
  \/ \E r \in Serial : LoginInsert(r)
  \/ \E r \in Serial : Logout(r)
  \/ \E r \in Serial : GetNotes(r)
  \/ \E r \in Serial : PostNote(r)
  \/ \E r \in Serial : Reset(r)
  \/ Tick

Spec == Init /\ [][Next]_vars


-----------------------------------------------------------------------------
\* Properties

\* a GET /api/notes of the gated router that was answered with its notes
Listed(r) ==
  /\ pc[r] = "done"
  /\ req[r].router = "route"
  /\ req[r].route = "get_notes"
  /\ resp[r].status = 200

\* the rows of a Vec as a set
RowsOf(rows) == {rows[i] : i \in DOMAIN rows}

\* C1: cross-tenant isolation.  A GET notes answered for the verified subject B
\* (with or without `from`) never contains a note whose owner is another user.
C1_CrossTenantIsolation ==
  \A r \in Reqs :
    Listed(r) => \A n \in RowsOf(resp[r].rows) : n.author = ctx[r].sub

\* C2: create-then-list.  A GET notes without `from` answered for the verified
\* subject U contains exactly the notes U created.
C2_CreateThenList ==
  \A r \in Reqs :
    (Listed(r) /\ req[r].from = NoFrom)
      => RowsOf(resp[r].rows) = {n \in notes : n.author = ctx[r].sub}


\* password p is the one the stored hash h was derived from
DerivedFrom(h, p) == h = hash_password(p, h.salt)

\* the rows stored for the email of login request rq
RowsFor(rq) == {u \in users : u.email = to_ascii_lowercase(rq.email)}

\* task r takes the step of login_user_handler that follows an answered lookup
LookupAnswered(r) ==
  /\ pc[r] = "handler"
  /\ req[r].router = "route"
  /\ req[r].route = "login"
  /\ pc'[r] # pc[r]
  /\ calls'[r] = <<"Ok">>

\* C3: a login for an email that has a UserCredential, with a password the stored
\* hash was not derived from, ends in 400: the users table is unchanged, no token
\* is issued and no Set-Cookie is sent.
C3_WrongPasswordRejected ==
  [][\A r \in Reqs :
       (/\ LookupAnswered(r)
        /\ RowsFor(req[r]) # {}
        /\ \A u \in RowsFor(req[r]) : ~DerivedFrom(u.password, req[r].password))
       => /\ pc'[r] = "done"
          /\ resp'[r].status = 400
          /\ resp'[r].token = NoToken
          /\ resp'[r].set_cookie = NoCookie
          /\ users' = users
          /\ held' = held]_vars

\* a login with a wrong password for a registered email has been answered
C3_Witness ==
  \E r \in Reqs :
    /\ pc[r] = "done"
    /\ req[r].route = "login"
    /\ calls[r] = <<"Ok">>
    /\ resp[r].status = 400
    /\ RowsFor(req[r]) # {}
    /\ \A u \in RowsFor(req[r]) : ~DerivedFrom(u.password, req[r].password)

\* C4 (second half): a GET notes without `from`, answered for a subject that has
\* created no note (as right after the first login), has author = the token's
\* email and an empty list, whatever notes other users created.
C4_FreshUserListsNothing ==
  \A r \in Reqs :
    (/\ Listed(r)
     /\ req[r].from = NoFrom
     /\ \A n \in notes : n.author # ctx[r].sub)
    => /\ resp[r].author = ctx[r].email
       /\ resp[r].notes = <<>>


\* C5: every inserted note has as owner the subject of the verified token of the
\* request that created it, and a list is scoped by a verified identity only:
\* both handlers answer only for a task the gate allowed.
C5_OwnerIsVerifiedSubject ==
  \A r \in Reqs :
    /\ (pc[r] = "done" /\ req[r].route = "post_note" /\ resp[r].status = 200)
         => (gate[r] = "ALLOWED" /\ resp[r].row.author = ctx[r].sub)
    /\ (pc[r] = "done" /\ req[r].route = "get_notes" /\ resp[r].status = 200)
         => gate[r] = "ALLOWED"

\* C6: a GET notes that carries neither cookie nor bearer token ends in 401 and
\* issues no query.
C6_NoTokenNoStoreCall ==
  \A r \in Reqs :
    (req[r].route = "get_notes" /\ req[r].cookie = NoToken /\ req[r].bearer = NoToken)
      => /\ calls[r] = <<>>
         /\ pc[r] = "done" => resp[r].status = 401

\* the handler of task r's route has been entered
HandlerEntered(r) ==
  \/ pc[r] \in {"handler", "login_insert"}
  \/ pc[r] = "done" /\ gate[r] \notin {"REJECTED_MISSING", "REJECTED_INVALID"}

\* C7: the handlers of logout, GET notes and POST notes are entered only after
\* the gate reached ALLOWED, and the gate never runs for login.
C7_GateBeforeProtectedHandlers ==
  \A r \in Reqs :
    /\ (HandlerEntered(r) /\ req[r].route \in {"logout", "get_notes", "post_note"})
         => gate[r] = "ALLOWED"
    /\ req[r].route = "login" => gate[r] = "none"


\* char::to_lowercase on the code points of the model (ASCII and Latin-1 letters)
to_lowercase_char(c) ==
  IF (c >= 65 /\ c <= 90) \/ (c >= 192 /\ c <= 222 /\ c # 215) THEN c + 32 ELSE c

IsLowercase(s) == \A i \in DOMAIN s : to_lowercase_char(s[i]) = s[i]

NoAsciiUppercase(s) == \A i \in DOMAIN s : ~(s[i] >= 65 /\ s[i] <= 90)

UniqueEmails == \A u1, u2 \in users : u1.email = u2.email => u1 = u2

LoginSucceeds(r) ==
  /\ pc[r] \in {"handler", "login_insert"}
  /\ req[r].router = "route"
  /\ req[r].route = "login"
  /\ pc'[r] = "done"
  /\ resp'[r].status = 200

\* C10: the claims built by a login have iat = the time of the login and
\* exp = iat + 2419200 s (4 weeks), and the cookie's max-age is 2419200 s.
C10_SessionLifetime ==
  [][\A r \in Reqs :
       LoginSucceeds(r)
       => /\ resp'[r].token.claims.iat = now
          /\ resp'[r].token.claims.exp = resp'[r].token.claims.iat + 2419200
          /\ resp'[r].set_cookie.max_age = 2419200]_vars

\* a login was answered 200 at a time after the epoch
C10_Witness ==
  \E r \in Reqs :
    /\ pc[r] = "done"
    /\ req[r].route = "login"
    /\ resp[r].status = 200
    /\ resp[r].token.claims.iat = now
    /\ now > 0

\* token t carries claims with the signature encode gives them under JWT_SECRET
IssuedByLogin(t) ==
  /\ "claims" \in DOMAIN t
  /\ t = encode(t.claims, JWT_SECRET)

\* task r's request for a route behind the gate is dispatched in this step
GateRuns(r) ==
  /\ pc[r] = "idle"
  /\ pc'[r] # "idle"
  /\ req'[r].router = "route"
  /\ create_router[req'[r].route]

\* C11: a protected request that presents a correctly signed token at a time
\* now >= its exp is answered 401 by the gate, enters no handler and issues no
\* query; a protected handler is entered only with now < exp of the presented
\* token at the time the gate ran.
C11_ExpiredTokenRejected ==
  [][\A r \in Reqs :
       /\ GateRuns(r) =>
            LET t == extract_token(req'[r]) IN
            /\ (IssuedByLogin(t) /\ now >= t.claims.exp)
                 => /\ pc'[r] = "done"
                    /\ resp'[r].status = 401
                    /\ calls'[r] = <<>>
                    /\ store' = store
            /\ pc'[r] = "handler" => (IssuedByLogin(t) /\ now < t.claims.exp)
       /\ (pc[r] = "done" /\ gate[r] = "REJECTED_INVALID")
            => (calls'[r] = <<>> /\ pc'[r] # "handler" /\ store' = store)]_vars

\* the token a login issued was presented on a protected route at the instant
\* of its exp and the gate answered 401
C11_Witness ==
  \E r \in Reqs :
    /\ pc[r] = "done"
    /\ req[r].route \in {"logout", "get_notes", "post_note"}
    /\ IssuedByLogin(extract_token(req[r]))
    /\ now = extract_token(req[r]).claims.exp
    /\ gate[r] = "REJECTED_INVALID"
    /\ resp[r].status = 401
    /\ calls[r] = <<>>

\* task r takes the step of logout_handler
LogoutRuns(r) ==
  /\ pc[r] = "handler"
  /\ req[r].router = "route"
  /\ req[r].route = "logout"
  /\ pc'[r] # pc[r]

\* C12: logout issues no query and changes nothing the server keeps; it answers
\* 200 with a cookie named token, of empty value and with a max-age in the past.
\* The gate's verdict does not depend on earlier logouts: a token issued by login
\* is allowed on a protected route whenever now < its exp.
C12_LogoutStateless ==
  [][\A r \in Reqs :
       /\ LogoutRuns(r)
            => /\ pc'[r] = "done"
               /\ calls'[r] = <<>>
               /\ store' = store
               /\ resp'[r].status = 200
               /\ resp'[r].token = NoToken
               /\ resp'[r].set_cookie.name = "token"
               /\ resp'[r].set_cookie.value = NoToken
               /\ resp'[r].set_cookie.max_age < 0
       /\ GateRuns(r)
            => LET t == extract_token(req'[r]) IN
               (IssuedByLogin(t) /\ now < t.claims.exp)
                 => (gate'[r] = "ALLOWED" /\ pc'[r] = "handler")]_vars

\* a logout presented with an unexpired token of a login has been answered
C12_Witness ==
  \E r \in Reqs :
    /\ pc[r] = "done"
    /\ req[r].route = "logout"
    /\ resp[r].status = 200
    /\ resp[r].set_cookie = logout_cookie
    /\ IssuedByLogin(extract_token(req[r]))
    /\ extract_token(req[r]) = held
    /\ now < held.claims.exp
    /\ calls[r] = <<>>

\* task r takes a step of login_user_handler
LoginRuns(r) ==
  /\ pc[r] \in {"handler", "login_insert"}
  /\ req[r].router = "route"
  /\ req[r].route = "login"
  /\ pc'[r] # pc[r]

\* the outcome of the last query of a task
LastCall(c) == c[Len(c)]

\* C13: a login whose lookup or insert fails ends in 500 with no token in the
\* body and no Set-Cookie, and leaves the users table unchanged; after a failed
\* lookup no insert is attempted.
C13_StoreFailureDuringLogin ==
  [][\A r \in Reqs :
       /\ (LoginRuns(r) /\ LastCall(calls'[r]) # "Ok")
            => /\ pc'[r] = "done"
               /\ resp'[r].status = 500
               /\ resp'[r].token = NoToken
               /\ resp'[r].set_cookie = NoCookie
               /\ users' = users
               /\ held' = held
       /\ (calls[r] # <<>> /\ LastCall(calls[r]) # "Ok")
            => (pc[r] = "done" /\ calls'[r] \in {calls[r], <<>>})]_vars

\* one login ended in 500 on a failed lookup, another on a failed insert
C13_Witness ==
  \E r1, r2 \in Reqs :
    /\ pc[r1] = "done" /\ pc[r2] = "done"
    /\ req[r1].route = "login" /\ req[r2].route = "login"
    /\ Len(calls[r1]) = 1 /\ calls[r1][1] \in StoreErrors
    /\ Len(calls[r2]) = 2 /\ calls[r2][2] \in StoreErrors
    /\ resp[r1].status = 500 /\ resp[r2].status = 500
    /\ RowsFor(req[r1]) = {} /\ RowsFor(req[r2]) = {}

\* C14: a request whose query failed is answered 500 with a message that holds
\* nothing of the store's error, so that the answer is the same for every
\* error of the store.
C14_OpaqueStoreFailure ==
  \A r \in Reqs :
    (pc[r] = "done" /\ calls[r] # <<>> /\ LastCall(calls[r]) # "Ok")
      => /\ resp[r].status = 500
         /\ \A i \in DOMAIN resp[r].message :
              resp[r].message[i] # LastCall(calls[r])

\* C15: a login answered 200 has the raw token as its body and sets one cookie,
\* named token, with that same token as value, path /, HttpOnly and
\* SameSite=Lax; the response has this shape for a user that was found and for
\* a user the login registered.
C15_LoginResponseShape ==
  [][\A r \in Reqs :
       LoginSucceeds(r)
       => /\ DOMAIN resp'[r] = {"status", "token", "set_cookie"}
          /\ IssuedByLogin(resp'[r].token)
          /\ resp'[r].token.claims.email = to_ascii_lowercase(req[r].email)
          /\ resp'[r].set_cookie.name = "token"
          /\ resp'[r].set_cookie.value = resp'[r].token
          /\ resp'[r].set_cookie.path = "/"
          /\ resp'[r].set_cookie.http_only
          /\ resp'[r].set_cookie.same_site = "Lax"]_vars

\* a login of a user registered by an earlier login was answered 200 with the
\* token in body and cookie
C15_Witness ==
  \E r \in Reqs :
    /\ pc[r] = "done"
    /\ req[r].route = "login"
    /\ calls[r] = <<"Ok">>
    /\ resp[r].status = 200
    /\ resp[r].set_cookie.value = resp[r].token
    /\ resp[r].token.claims.iat > 0
    /\ \E u \in users : u.id = resp[r].token.claims.sub

\* the stored password h is nothing hash_password returns
NotHashed(h) == \A p \in Passwords, salt \in Salts : h # hash_password(p, salt)

\* C16: a login for an email whose stored hash does not parse, or cannot be
\* verified, is answered 400 with the message of a wrong password, whatever
\* password was sent; no token is issued and the users table is unchanged.
C16_VerificationFailsClosed ==
  [][\A r \in Reqs :
       (/\ LookupAnswered(r)
        /\ \E u \in RowsFor(req[r]) : NotHashed(u.password))
       => /\ pc'[r] = "done"
          /\ resp'[r] = error_response(400, "fail", "Invalid email or password")
          /\ users' = users
          /\ held' = held]_vars

\* a login with the password a stored text spells out was answered 400
C16_Witness ==
  \E r \in Reqs :
    /\ pc[r] = "done"
    /\ req[r].route = "login"
    /\ calls[r] = <<"Ok">>
    /\ resp[r].status = 400
    /\ \E u \in RowsFor(req[r]) :
         /\ ~parses(u.password)
         /\ u.password.plain = req[r].password

OwnersExist ==
  /\ \A n \in notes : \E u \in users : u.id = n.author
  /\ \A i \in DOMAIN notes0 : \E u \in users : u.id = notes0[i].author

\* C18: every step leaves each stored note as it is, adds at most one note,
\* and leaves every note with an owner that is the id of a stored user.
C18_NotesOwnedAndImmutable ==
  [][/\ notes \subseteq notes'
     /\ Cardinality(notes' \ notes) <= 1
     /\ Len(notes0') \in {Len(notes0), Len(notes0) + 1}
     /\ \A i \in DOMAIN notes0 : notes0'[i] = notes0[i]
     /\ OwnersExist']_vars

\* C19: a GET notes with `from` answers exactly the notes of the verified
\* subject whose date is strictly after `from`; without `from` it answers all
\* notes of the subject, whatever their date.
C19_FromFilter ==
  \A r \in Reqs :
    Listed(r)
      => RowsOf(resp[r].rows) =
           IF req[r].from = NoFrom
           THEN {n \in notes : n.author = ctx[r].sub}
           ELSE {n \in notes : n.author = ctx[r].sub /\ n.date > req[r].from}

====
